---- MODULE Spec2Model ----
(***************************************************************************)
(* Model of jupyter-py/pair_selector.py: the two pair screeners            *)
(* coint(df, intercept, sig_level) and distance(df, n).                    *)
(*                                                                         *)
(* Numbers.  Prices are small integers.  A p-value k of PGrid stands for   *)
(* k/3 (so 0 and 3 are the ends of [0,1]) and sig_level is in that unit.   *)
(* The z-scores and distances of distance() are irrational in general;     *)
(* they are kept in an exact symbolic form (see normalize and SqDist) and  *)
(* compared exactly, with NaN as the value numpy produces for 0/0.         *)
(* Rounding of IEEE doubles is not modelled.                               *)
(***************************************************************************)
EXTENDS Integers, Sequences, FiniteSets, TLC

VARIABLES
    df,                 \* the price table: sequence of columns [name, values]
    args,               \* the pending call: [fn, intercept, sig_level, n]
    pc,                 \* position of the call: idle, coint_loop, dist_loop, dist_return
    stock_pairs,        \* local: list(itertools.combinations(stock_names, 2))
    it,                 \* local: position of the for loop in stock_pairs
    cointegrated_pairs, \* local of coint
    scores_to_pairs,    \* local of distance
    stdout,             \* what print() wrote
    outcomes,           \* what the finished calls gave their caller, in order
    tests               \* results the statistical library has given, by input data

vars == <<df, args, pc, stock_pairs, it, cointegrated_pairs, scores_to_pairs,
          stdout, outcomes, tests>>

----------------------------------------------------------------------------
(* Bounds of the model *)

\* most columns of a table
MaxN == 3
\* a table of the wide family has exactly this many columns
MaxWide == 5
\* largest n passed to distance(); the smallest is -1
MaxArg == 3
\* calls made in succession on the same table with the same arguments
MaxCalls == 2

\* print(scores_to_pairs[:10])
PrintLimit == 10

\* the p-values 0, 1/3, 2/3, 1
PGrid == 0..3
\* the values given to sig_level: 2/3, and 1, which is outside (0,1)
SigLevels == {2, 3}

Names == <<"A", "B", "C", "D", "E", "F", "G", "H">>

\* price series of the tables given to distance()
U == <<1, 2, 3>>
Series ==
    { U,                \* the reference series
      <<3, 5, 7>>,      \* 2*U + 1
      <<3, 2, 1>>,      \* -U + 4
      <<1, 3, 2>>,      \* correlation 1/2 with U
      <<2, 2, 2>> }     \* constant

\* series of the tables given to coint(): the results of the tests are drawn
\* per pair of series, not computed from them
CointSeries == { U, <<2, 2, 2>> }

----------------------------------------------------------------------------
(* Sequences *)

RECURSIVE SumSeq(_)
SumSeq(s) == IF s = <<>> THEN 0 ELSE Head(s) + SumSeq(Tail(s))

Min(a, b) == IF a < b THEN a ELSE b
Max(a, b) == IF a < b THEN b ELSE a

\* Python's s[:n]
SliceTo(s, n) ==
    IF n >= 0 THEN SubSeq(s, 1, Min(n, Len(s)))
    ELSE SubSeq(s, 1, Max(Len(s) + n, 0))

----------------------------------------------------------------------------
(* The table *)

\* a table whose i-th column is named Names[i] and holds values[i]
Table(values) ==
    [i \in 1..Len(values) |-> [name |-> Names[i], values |-> values[i]]]

\* all tables of N columns with series from S
Tables(S, N) == { Table(v) : v \in [1..N -> S] }

\* df.columns.values.tolist()
Columns(t) == [i \in 1..Len(t) |-> t[i].name]

\* df[stock].values
Values(t, stock) == t[CHOOSE i \in 1..Len(t) : t[i].name = stock].values

----------------------------------------------------------------------------
(* itertools.combinations(stock_names, 2): the index pairs (i, j), i < j,   *)
(* in lexicographic order, each giving (names[i], names[j]).               *)

RECURSIVE CombinationsFrom(_, _)
CombinationsFrom(names, i) ==
    IF i > Len(names) THEN <<>>
    ELSE [d \in 1..(Len(names) - i) |-> <<names[i], names[i + d]>>]
         \o CombinationsFrom(names, i + 1)

\* itertools.permutations(stock_names, 2) in its place
permutations(names) ==
    LET N == Len(names)
        cell(k) == <<((k - 1) \div N) + 1, ((k - 1) % N) + 1>>
    IN  SelectSeq([k \in 1..(N * N) |-> <<names[cell(k)[1]], names[cell(k)[2]]>>],
                  LAMBDA pr : pr[1] # pr[2])

\* itertools.combinations_with_replacement(stock_names, 2) in its place
RECURSIVE WithReplacementFrom(_, _)
WithReplacementFrom(names, i) ==
    IF i > Len(names) THEN <<>>
    ELSE [d \in 1..(Len(names) - i + 1) |-> <<names[i], names[i + d - 1]>>]
         \o WithReplacementFrom(names, i + 1)

combinations_with_replacement(names) == WithReplacementFrom(names, 1)

combinations(names) == CombinationsFrom(names, 1)

----------------------------------------------------------------------------
(* Exact arithmetic of distance().                                         *)
(*                                                                         *)
(* For a series p of length T let c = T*(p - mean(p)) (integers) and       *)
(* S = sum(c*c), so that std(p) = sqrt(S / T^3) and                        *)
(*     normalize(p) = (p - mean(p)) / std(p) = c * sqrt(T / S).            *)
(* With S = 0 every element is 0/0, which numpy evaluates to nan.          *)
(* For two normalized series, sum((z1 - z2)^2) = 2T - 2T*r with            *)
(*     r = sum(c1*c2) / sqrt(S1*S2),                                       *)
(* and r is kept as sign * sqrt(num/den) with num/den in lowest terms, so  *)
(* that equal distances are equal values.                                  *)

RECURSIVE Gcd(_, _)
Gcd(a, b) == IF b = 0 THEN a ELSE Gcd(b, a % b)

Dot(a, b) == SumSeq([i \in 1..Len(a) |-> a[i] * b[i]])

\* T * (p - np.mean(p))
Centered(p) == [i \in 1..Len(p) |-> Len(p) * p[i] - SumSeq(p)]

\* (p - np.mean(p)) / np.std(p), as the vector c * sqrt(T / S); all nan if S = 0
normalize(p) ==
    LET c == Centered(p)
    IN  [nan |-> Dot(c, c) = 0, c |-> c, S |-> Dot(c, c)]

\* the distance nan
NaNDist == [nan |-> TRUE, sign |-> 0, num |-> 0, den |-> 1]

\* diff = p1 + p2 in place of p1 - p2: the number 2T*(1 + sign*sqrt(num/den))
SqDistOfSum(p1, p2) ==
    IF p1.nan \/ p2.nan THEN NaNDist
    ELSE LET x == Dot(p1.c, p2.c)
             g == Gcd(x * x, p1.S * p2.S)
         IN  [nan  |-> FALSE,
              sign |-> IF x > 0 THEN -1 ELSE IF x < 0 THEN 1 ELSE 0,
              num  |-> (x * x) \div g,
              den  |-> (p1.S * p2.S) \div g]

\* diff = p1 - p2; (diff * diff).sum(), for normalized p1, p2: the number
\* 2T*(1 - sign*sqrt(num/den)), T the length of the table's series, or nan
SqDist(p1, p2) ==
    IF p1.nan \/ p2.nan THEN NaNDist
    ELSE LET x == Dot(p1.c, p2.c)
             g == Gcd(x * x, p1.S * p2.S)
         IN  [nan  |-> FALSE,
              sign |-> IF x > 0 THEN 1 ELSE IF x < 0 THEN -1 ELSE 0,
              num  |-> (x * x) \div g,
              den  |-> (p1.S * p2.S) \div g]

\* whether r(a) > r(b), for distances a, b that are numbers
CorrGt(a, b) ==
    IF a.sign # b.sign THEN a.sign > b.sign
    ELSE IF a.sign = 1 THEN a.num * b.den > b.num * a.den
    ELSE IF a.sign = -1 THEN a.num * b.den < b.num * a.den
    ELSE FALSE

\* a < b on floats: False as soon as one side is nan
DistLt(a, b) == ~a.nan /\ ~b.nan /\ CorrGt(a, b)

IsZero(d) == ~d.nan /\ d.sign = 1 /\ d.num = d.den

----------------------------------------------------------------------------
(* sorted(scores_to_pairs, key=lambda x: x[0]): CPython's list sort.  A    *)
(* list shorter than 64 is one run: the longest initial run (ascending, or *)
(* strictly descending and then reversed) is found by count_run and the    *)
(* remaining elements are added to it by binary insertion.  Only the keys  *)
(* are compared, with <.                                                   *)

KeyLt(x, y) == DistLt(x[1], y[1])

Reverse(s) == [i \in 1..Len(s) |-> s[Len(s) + 1 - i]]

\* count_run: the last index of the initial run
RECURSIVE RunEnd(_, _, _)
RunEnd(s, descending, i) ==
    IF i < Len(s) /\ (KeyLt(s[i + 1], s[i]) <=> descending)
    THEN RunEnd(s, descending, i + 1)
    ELSE i

\* binarysort's search for the pivot's place among s[l..r-1]
RECURSIVE Bisect(_, _, _, _)
Bisect(s, pivot, l, r) ==
    IF l >= r THEN l
    ELSE LET p == l + ((r - l) \div 2)
         IN  IF KeyLt(pivot, s[p]) THEN Bisect(s, pivot, l, p)
             ELSE Bisect(s, pivot, p + 1, r)

\* binarysort: s[1..start-1] is the run, the elements from start on are inserted
RECURSIVE BinarySort(_, _)
BinarySort(s, start) ==
    IF start > Len(s) THEN s
    ELSE LET l == Bisect(s, s[start], 1, start)
         IN  BinarySort(SubSeq(s, 1, l - 1) \o <<s[start]>> \o SubSeq(s, l, start - 1)
                           \o SubSeq(s, start + 1, Len(s)),
                        start + 1)

sorted(s) ==
    IF Len(s) < 2 THEN s
    ELSE LET descending == KeyLt(s[2], s[1])
             n == RunEnd(s, descending, 2)
         IN  BinarySort(IF descending
                        THEN Reverse(SubSeq(s, 1, n)) \o SubSeq(s, n + 1, Len(s))
                        ELSE s, n + 1)

----------------------------------------------------------------------------
(* The statistical library.  smts.coint(...)[1] and adfuller(resid)[1] are *)
(* functions of the two series: a p-value in [0,1], nan, or an exception.  *)
(* The value is drawn when a pair of series is first tested and is the     *)
(* same whenever that pair is tested again.                                *)

PValue(k) == [kind |-> "float", p |-> k]
NaN == [kind |-> "nan", p |-> 0]
RAISED == [kind |-> "raise", p |-> 0]
TestResults == { PValue(k) : k \in PGrid } \cup {NaN, RAISED}

\* p_value < sig_level on floats
PLt(p_value, sig_level) == p_value.kind = "float" /\ p_value.p < sig_level

----------------------------------------------------------------------------
(* State after construction: a table and the arguments of the call that    *)
(* its owner is about to make (and to repeat).                             *)

NoFrame ==
    /\ pc = "idle"
    /\ stock_pairs = <<>>
    /\ it = 0
    /\ cointegrated_pairs = <<>>
    /\ scores_to_pairs = <<>>
    /\ stdout = <<>>
    /\ outcomes = <<>>
    /\ tests = <<>>

InitCoint ==
    /\ \E N \in 0..MaxN : df \in Tables(CointSeries, N)
    /\ \E b \in BOOLEAN, s \in SigLevels :
          args = [fn |-> "coint", intercept |-> b, sig_level |-> s]
    /\ NoFrame

InitDistance ==
    /\ \E N \in 0..MaxN : df \in Tables(Series, N)
    /\ \E n \in (-1)..MaxArg : args = [fn |-> "distance", n |-> n]
    /\ NoFrame

InitWide ==
    /\ df \in Tables(Series, MaxWide)
    /\ \E n \in {1, MaxArg} : args = [fn |-> "distance", n |-> n]
    /\ NoFrame

Init == InitCoint \/ InitDistance

----------------------------------------------------------------------------
(* coint(df, intercept, sig_level) *)

\* cointegrated_pairs kept from call to call (a mutable default, a global)
CointEnterKeeping ==
    /\ pc = "idle" /\ args.fn = "coint" /\ Len(outcomes) < MaxCalls
    /\ stock_pairs' = combinations(Columns(df))
    /\ it' = 1
    /\ pc' = "coint_loop"
    /\ UNCHANGED <<df, args, cointegrated_pairs, scores_to_pairs, stdout, outcomes, tests>>

\* lines 28-33
CointEnter ==
    /\ pc = "idle" /\ args.fn = "coint" /\ Len(outcomes) < MaxCalls
    /\ cointegrated_pairs' = <<>>
    /\ stock_pairs' = combinations(Columns(df))
    /\ it' = 1
    /\ pc' = "coint_loop"
    /\ UNCHANGED <<df, args, scores_to_pairs, stdout, outcomes, tests>>

\* the library call on the series of stock_1 and stock_2 gives r
Tested(stock_1, stock_2, r) ==
    LET key == <<Values(df, stock_1), Values(df, stock_2)>>
    IN  /\ r \in TestResults
        /\ key \in DOMAIN tests => r = tests[key]
        /\ tests' = (key :> r) @@ tests

\* p_value <= sig_level
KeepAtLevel(p_value, sig_level) == p_value.kind = "float" /\ p_value.p <= sig_level

\* line 52
Keep(p_value, sig_level) == PLt(p_value, sig_level)

\* lines 52-53, and the next iteration; or the library's exception leaves the call
CointJudge(stock_1, stock_2, r) ==
    IF r = RAISED
    THEN /\ pc' = "idle"
         /\ outcomes' = Append(outcomes, [kind |-> "raised", at |-> <<stock_1, stock_2>>])
         /\ UNCHANGED <<it, cointegrated_pairs>>
    ELSE /\ cointegrated_pairs' =
                IF Keep(r, args.sig_level)
                THEN Append(cointegrated_pairs, <<stock_1, stock_2, r>>)
                ELSE cointegrated_pairs
         /\ it' = it + 1
         /\ UNCHANGED <<pc, outcomes>>

\* one iteration with intercept = False: lines 35-41, 52-53
CointPairDirect ==
    /\ pc = "coint_loop" /\ it <= Len(stock_pairs) /\ ~args.intercept
    /\ LET stock_1 == stock_pairs[it][1]
           stock_2 == stock_pairs[it][2]
       IN  \E r \in TestResults :
              /\ Tested(stock_1, stock_2, r)
              /\ CointJudge(stock_1, stock_2, r)
    /\ UNCHANGED <<df, args, stock_pairs, scores_to_pairs, stdout>>

\* one iteration with intercept = True: lines 35-38, 43-50, 52-53
CointPairOLS ==
    /\ pc = "coint_loop" /\ it <= Len(stock_pairs) /\ args.intercept
    /\ LET stock_1 == stock_pairs[it][1]
           stock_2 == stock_pairs[it][2]
       IN  \E r \in TestResults :
              /\ Tested(stock_1, stock_2, r)
              /\ CointJudge(stock_1, stock_2, r)
    /\ UNCHANGED <<df, args, stock_pairs, scores_to_pairs, stdout>>

\* line 55
CointReturn ==
    /\ pc = "coint_loop" /\ it > Len(stock_pairs)
    /\ pc' = "idle"
    /\ outcomes' = Append(outcomes, [kind |-> "returned", value |-> cointegrated_pairs])
    /\ UNCHANGED <<df, args, stock_pairs, it, cointegrated_pairs, scores_to_pairs,
                   stdout, tests>>

----------------------------------------------------------------------------
(* distance(df, n) *)

\* lines 74-79
DistanceEnter ==
    /\ pc = "idle" /\ args.fn = "distance" /\ Len(outcomes) < MaxCalls
    /\ scores_to_pairs' = <<>>
    /\ stock_pairs' = combinations(Columns(df))
    /\ it' = 1
    /\ pc' = "dist_loop"
    /\ UNCHANGED <<df, args, cointegrated_pairs, stdout, outcomes, tests>>

\* lines 84-91
Dist(pair) ==
    SqDist(normalize(Values(df, pair[1])), normalize(Values(df, pair[2])))

\* one iteration: lines 81-92
DistancePair ==
    /\ pc = "dist_loop" /\ it <= Len(stock_pairs)
    /\ scores_to_pairs' = Append(scores_to_pairs, <<Dist(stock_pairs[it]), stock_pairs[it]>>)
    /\ it' = it + 1
    /\ UNCHANGED <<df, args, pc, stock_pairs, cointegrated_pairs, stdout, outcomes, tests>>

\* lines 94-96
DistanceSort ==
    /\ pc = "dist_loop" /\ it > Len(stock_pairs)
    /\ scores_to_pairs' = sorted(scores_to_pairs)
    /\ stdout' = Append(stdout, SliceTo(scores_to_pairs', PrintLimit))
    /\ pc' = "dist_return"
    /\ UNCHANGED <<df, args, stock_pairs, it, cointegrated_pairs, outcomes, tests>>

\* [x[1] for x in s]
PairsOf(s) == [i \in 1..Len(s) |-> s[i][2]]

\* lines 98-101
Returned(scores, n) ==
    IF Len(scores) < n THEN PairsOf(scores) ELSE PairsOf(SliceTo(scores, n))

DistanceReturn ==
    /\ pc = "dist_return"
    /\ pc' = "idle"
    /\ outcomes' = Append(outcomes, [kind |-> "returned",
                                     value |-> Returned(scores_to_pairs, args.n)])
    /\ UNCHANGED <<df, args, stock_pairs, it, cointegrated_pairs, scores_to_pairs,
                   stdout, tests>>

----------------------------------------------------------------------------

Next ==
    \/ CointEnter
    \/ CointPairDirect
    \/ CointPairOLS
    \/ CointReturn
    \/ DistanceEnter
    \/ DistancePair
    \/ DistanceSort
    \/ DistanceReturn

Spec == Init /\ [][Next]_vars

\* distance() alone, on the wide tables
NextDistance ==
    \/ DistanceEnter
    \/ DistancePair
    \/ DistanceSort
    \/ DistanceReturn

SpecWide == InitWide /\ [][NextDistance]_vars
----------------------------------------------------------------------------
(* Properties *)

\* position of a column name in the table
Pos(name) == CHOOSE i \in 1..Len(df) : df[i].name = name

\* C(N,2)
Choose2(N) == (N * (N - 1)) \div 2

\* a call has set up its locals
Entered == it >= 1

\* the calls that returned normally
ReturnedCalls == { c \in 1..Len(outcomes) : outcomes[c].kind = "returned" }

\* C1: the pair list of either screener has exactly C(N,2) entries, each made
\* of two different columns with the earlier column first, in lexicographic
\* order of the column positions (hence no pair twice); the loop visits them
\* in that order (distance() has scored exactly the pairs before the loop
\* position), and a call that returns has visited all of them.
C1_Enumeration ==
    Entered =>
        /\ Len(stock_pairs) = Choose2(Len(df))
        /\ \A k \in 1..Len(stock_pairs) :
              /\ \E i, j \in 1..Len(df) :
                    i < j /\ stock_pairs[k] = <<df[i].name, df[j].name>>
              /\ Pos(stock_pairs[k][1]) < Pos(stock_pairs[k][2])
        /\ \A k, l \in 1..Len(stock_pairs) :
              k < l =>
                 \/ Pos(stock_pairs[k][1]) < Pos(stock_pairs[l][1])
                 \/ /\ Pos(stock_pairs[k][1]) = Pos(stock_pairs[l][1])
                    /\ Pos(stock_pairs[k][2]) < Pos(stock_pairs[l][2])
        /\ it <= Len(stock_pairs) + 1
        /\ pc = "dist_loop" => PairsOf(scores_to_pairs) = SubSeq(stock_pairs, 1, it - 1)
        /\ pc = "dist_return" =>
              /\ Len(scores_to_pairs) = Len(stock_pairs)
              /\ \A k \in 1..Len(stock_pairs) :
                    \E m \in 1..Len(scores_to_pairs) : scores_to_pairs[m][2] = stock_pairs[k]
        /\ (pc = "idle" /\ outcomes[Len(outcomes)].kind = "returned") =>
              it = Len(stock_pairs) + 1

\* both screeners have gone through all three pairs of a three-column table
C1_Witness ==
    /\ Len(df) = 3
    /\ pc = "idle" /\ Len(outcomes) = 1 /\ outcomes[1].kind = "returned"
    /\ it = 4
    /\ stock_pairs = <<<<"A", "B">>, <<"A", "C">>, <<"B", "C">>>>

\* the result the library gave for a pair
ResultOf(pair) == tests[<<Values(df, pair[1]), Values(df, pair[2])>>]

\* the pairs of ps with p_value < sig_level, as triples, in the order of ps
RECURSIVE Qualifying(_)
Qualifying(ps) ==
    IF ps = <<>> THEN <<>>
    ELSE LET r == ResultOf(Head(ps))
         IN  (IF r.kind = "float" /\ r.p < args.sig_level
              THEN <<<<Head(ps)[1], Head(ps)[2], r>>>> ELSE <<>>)
             \o Qualifying(Tail(ps))

\* C2: the list coint() returns is the pair list filtered by p_value <
\* sig_level, in enumeration order: each pair strictly below the level once,
\* with its p-value, and no pair at or above the level.
C2_CointFilter ==
    args.fn = "coint" =>
        \A c \in ReturnedCalls :
            /\ outcomes[c].value = Qualifying(stock_pairs)
            /\ \A m \in 1..Len(outcomes[c].value) :
                  /\ outcomes[c].value[m][3].kind = "float"
                  /\ outcomes[c].value[m][3].p < args.sig_level

\* a returned list that is not sorted by p-value, with a pair whose p-value
\* equals sig_level left out
C2_Witness ==
    /\ args.fn = "coint"
    /\ \E c \in ReturnedCalls :
          /\ Len(outcomes[c].value) = 2
          /\ outcomes[c].value[1][3].p > outcomes[c].value[2][3].p
          /\ \E k \in 1..Len(stock_pairs) :
                /\ ResultOf(stock_pairs[k]) = PValue(args.sig_level)
                /\ \A m \in 1..2 : outcomes[c].value[m][1] # stock_pairs[k][1]
                                   \/ outcomes[c].value[m][2] # stock_pairs[k][2]

\* C7: with fewer than two columns the pair list is empty, no per-pair
\* computation runs (no test is made, no distance is scored, nothing is
\* kept) and every call ends by returning the empty list, not by an error.
C7_FewColumns ==
    Len(df) < 2 =>
        /\ stock_pairs = <<>>
        /\ scores_to_pairs = <<>>
        /\ cointegrated_pairs = <<>>
        /\ tests = <<>>
        /\ \A c \in 1..Len(outcomes) :
              outcomes[c].kind = "returned" /\ outcomes[c].value = <<>>

\* a one-column table on which a call has returned
C7_Witness ==
    /\ Len(df) = 1
    /\ Len(outcomes) >= 1
    /\ outcomes[1] = [kind |-> "returned", value |-> <<>>]

\* C8: a call never changes the table or the arguments, and every call in a
\* succession of calls on the same table with the same arguments ends the
\* same way (same returned list, or the same exception at the same pair).
C8_Idempotent ==
    [][ /\ df' = df
        /\ args' = args
        /\ \A c, d \in 1..Len(outcomes') : outcomes'[c] = outcomes'[d] ]_vars

\* two calls have returned a non-empty list
C8_Witness ==
    /\ Len(outcomes) = 2
    /\ outcomes[1].kind = "returned"
    /\ outcomes[1].value # <<>>
    /\ outcomes[2].kind = "returned"

\* n <= 0 for distance(), sig_level outside (0,1) for coint()
OutOfRange ==
    IF args.fn = "distance" THEN args.n <= 0
    ELSE \/ \A k \in PGrid : args.sig_level <= k
         \/ \A k \in PGrid : args.sig_level >= k

\* C4: on a table of two or more columns, a call with an out-of-range
\* argument returns no list (it ends in an InvalidInputError).
C4_InvalidInput ==
    (OutOfRange /\ Len(df) >= 2) => ReturnedCalls = {}

\* whether the column of that name is constant
Constant(name) == \A i, j \in 1..Len(Values(df, name)) :
                     Values(df, name)[i] = Values(df, name)[j]

\* C5: when distance(), called with n >= 1, has returned, no pair with a
\* constant column is in the returned list and no nan distance was among
\* those ranked.
C5_DegenerateSkipped ==
    (args.fn = "distance" /\ ~OutOfRange /\ pc = "idle") =>
        \A c \in ReturnedCalls :
            /\ \A m \in 1..Len(scores_to_pairs) : ~scores_to_pairs[m][1].nan
            /\ \A m \in 1..Len(outcomes[c].value) :
                  ~Constant(outcomes[c].value[m][1]) /\ ~Constant(outcomes[c].value[m][2])

\* the pairs a finished call reported as failed: the pair at which an
\* exception left the call; a returned list carries no report
Surfaced(o) == IF o.kind = "raised" THEN {o.at} ELSE {}

\* C6: when a call of coint(), with sig_level in (0,1), has returned, every
\* pair whose test gave nan has been reported by the call as a failure of
\* that pair (it was not silently left out by p_value < sig_level).
C6_FailureSurfaced ==
    (args.fn = "coint" /\ ~OutOfRange) =>
        \A c \in ReturnedCalls :
            \A k \in 1..Len(stock_pairs) :
                ResultOf(stock_pairs[k]).kind = "nan"
                   => stock_pairs[k] \in Surfaced(outcomes[c])

\* position of a pair in the enumeration
Rank(pair) == CHOOSE k \in 1..Len(stock_pairs) : stock_pairs[k] = pair

\* whether the pair is in the list
InList(pair, list) == \E m \in 1..Len(list) : list[m] = pair

\* C3: with two or more columns and n >= 1, distance() returns exactly
\* min(n, C(N,2)) pairs and they are the first entries of the ascending
\* ranking: no returned pair is strictly farther than a pair returned after
\* it or than a pair left out.
C3_ClosestPairs ==
    (args.fn = "distance" /\ Len(df) >= 2 /\ args.n >= 1) =>
        \A c \in ReturnedCalls :
            LET v == outcomes[c].value
            IN  /\ Len(v) = Min(args.n, Choose2(Len(df)))
                /\ \A a, b \in 1..Len(v) :
                      a < b => ~DistLt(Dist(v[b]), Dist(v[a]))
                /\ \A m \in 1..Len(v) : \A k \in 1..Len(stock_pairs) :
                      ~InList(stock_pairs[k], v)
                         => ~DistLt(Dist(stock_pairs[k]), Dist(v[m]))

\* C10: in the sorted list, pairs at the same distance are in enumeration
\* order.
C10_StableTies ==
    pc = "dist_return" =>
        \A a, b \in 1..Len(scores_to_pairs) :
            ( /\ a < b
              /\ ~scores_to_pairs[a][1].nan
              /\ scores_to_pairs[a][1] = scores_to_pairs[b][1] )
                => Rank(scores_to_pairs[a][2]) < Rank(scores_to_pairs[b][2])

\* q = a*p + b for a scale a of the set and some shift b (b = q[1] - a*p[1])
ScaledCopy(p, q, scales) ==
    \E a \in scales : \A i \in 1..Len(p) : q[i] - a * p[i] = q[1] - a * p[1]

\* the two columns of the pair are scaled and shifted copies of each other
Related(pair, scales) ==
    \/ ScaledCopy(Values(df, pair[1]), Values(df, pair[2]), scales)
    \/ ScaledCopy(Values(df, pair[2]), Values(df, pair[1]), scales)

ClearWinner(pair) ==
    \A k \in 1..Len(stock_pairs) :
       /\ (stock_pairs[k] # pair) => ~IsZero(Dist(stock_pairs[k]))
       /\ (k < Rank(pair)) => ~Dist(stock_pairs[k]).nan

====
